---------------------------- MODULE Spec2Model ----------------------------
(***************************************************************************)
(* A model of the Sudoku solver of src/sudoku_solver.py (main) and         *)
(* src/sudoku_functions.py (the helper functions and the recursive         *)
(* check_possible_scenarios).                                              *)
(*                                                                         *)
(* Python values are modelled as follows.                                  *)
(*   - a token / cell of the matrix is a string: "1".."9" or "-";          *)
(*   - the matrix (a list of 9 lists of 9 strings) is a function           *)
(*     [0..8 -> [0..8 -> STRING]], indexed like the Python lists;          *)
(*   - a square is the tuple <<i, j>>;                                     *)
(*   - a Python list is a sequence;                                        *)
(*   - a Python dict is a record [keys |-> the keys in insertion order,    *)
(*     at |-> the mapping]; dict equality compares only the mapping;       *)
(*   - Python's None is the string "None" where a string is expected      *)
(*     (compare_solutions) and the empty tuple where a matrix is expected  *)
(*     (check_possible_scenarios): TLC compares values of one kind only.   *)
(***************************************************************************)
EXTENDS Integers, Sequences, FiniteSets, TLC

None == "None"

\* None as the result of check_possible_scenarios and as main's matrix
NoMatrix == <<>>

\* [str(x) for x in range(1, 10)]
Digits == <<"1", "2", "3", "4", "5", "6", "7", "8", "9">>

\* str.isdigit() on the tokens the adapter hands over (digits or "-")
isdigit(s) == s \in {"0", "1", "2", "3", "4", "5", "6", "7", "8", "9"}

Idx == 0 .. 8

\* x in list
In(x, list) == \E k \in 1 .. Len(list) : list[k] = x

\* "if x in list: list.remove(x)": the first occurrence of x is dropped
Discard(list, x) ==
    IF In(x, list)
    THEN LET k == CHOOSE n \in 1 .. Len(list) :
                     /\ list[n] = x
                     /\ \A l \in 1 .. n - 1 : list[l] # x
         IN  SubSeq(list, 1, k - 1) \o SubSeq(list, k + 1, Len(list))
    ELSE list

RECURSIVE DiscardAll(_, _, _)
\* for element in elems[from ..]: if element in list: list.remove(element)
DiscardAll(list, elems, from) ==
    IF from > Len(elems) THEN list
    ELSE IF In(elems[from], list)
         THEN DiscardAll(Discard(list, elems[from]), elems, from + 1)
         ELSE DiscardAll(list, elems, from + 1)

\* matrix = [[raw_matrix[i] for i in range(n, n + 9)] for n in range(0, 81, 9)]
Reshape(raw_matrix) == [i \in Idx |-> [j \in Idx |-> raw_matrix[9 * i + j + 1]]]

\* find_box with the last columns one to the left
find_box_wrong(square) ==
    LET i == square[1]
        j == square[2]
        rows == IF i <= 2 THEN <<0, 1, 2>> ELSE IF i <= 5 THEN <<3, 4, 5>> ELSE <<6, 7, 8>>
        cols == IF j <= 2 THEN <<0, 1, 2>> ELSE IF j <= 5 THEN <<3, 4, 5>> ELSE <<5, 6, 7>>
    IN  <<rows, cols>>

find_box(square) ==
    LET i == square[1]
        j == square[2]
        rows == IF 0 <= i /\ i <= 2 THEN <<0, 1, 2>>
                ELSE IF 3 <= i /\ i <= 5 THEN <<3, 4, 5>>
                ELSE <<6, 7, 8>>
        cols == IF 0 <= j /\ j <= 2 THEN <<0, 1, 2>>
                ELSE IF 3 <= j /\ j <= 5 THEN <<3, 4, 5>>
                ELSE <<6, 7, 8>>
    IN  <<rows, cols>>

\* the squares in the order of "for i in range(9): for j in range(9)"
AllSquares == [k \in 1 .. 81 |-> <<(k - 1) \div 9, (k - 1) % 9>>]

\* find_empty_squares with "for i in range(1, 9)": row 0 is not looked at
find_empty_squares_from_row_1(matrix) ==
    SelectSeq(AllSquares, LAMBDA sq : sq[1] >= 1 /\ ~isdigit(matrix[sq[1]][sq[2]]))

find_empty_squares(matrix) ==
    SelectSeq(AllSquares, LAMBDA sq : ~isdigit(matrix[sq[1]][sq[2]]))

\* the elements the three scans of find_possible_solutions visit, in order
RowElements(matrix, i) == [k \in 1 .. 9 |-> matrix[i][k - 1]]
ColElements(matrix, j) == [k \in 1 .. 9 |-> matrix[k - 1][j]]
BoxElements(matrix, box) ==
    [k \in 1 .. 9 |-> matrix[box[1][((k - 1) \div 3) + 1]][box[2][((k - 1) % 3) + 1]]]

\* SolutionsOf without its third scan, the one over the box
SolutionsOf_no_box(matrix, empty_square) ==
    LET afterRow == DiscardAll(Digits, RowElements(matrix, empty_square[1]), 1)
    IN  DiscardAll(afterRow, ColElements(matrix, empty_square[2]), 1)

\* the body of the second loop of find_possible_solutions for one square
SolutionsOf(matrix, empty_square) ==
    LET afterRow == DiscardAll(Digits, RowElements(matrix, empty_square[1]), 1)
        afterCol == DiscardAll(afterRow, ColElements(matrix, empty_square[2]), 1)
    IN  DiscardAll(afterCol, BoxElements(matrix, find_box(empty_square)), 1)

SeqRange(s) == {s[k] : k \in 1 .. Len(s)}

find_possible_solutions(matrix, empty_squares) ==
    [keys |-> empty_squares,
     at   |-> [sq \in SeqRange(empty_squares) |-> SolutionsOf(matrix, sq)]]


\* the least element of a non-empty set of integers
Least(S) == CHOOSE k \in S : \A l \in S : k <= l

\* MinLen over the squares that have a solution left
MinLen_nonempty(possible_solutions) ==
    LET lens == {Len(possible_solutions.at[sq]) : sq \in DOMAIN possible_solutions.at} \ {0}
    IN  IF lens = {} THEN 0 ELSE Least(lens)

\* len(min(possible_solutions.values(), key=len))
MinLen(possible_solutions) ==
    Least({Len(possible_solutions.at[sq]) : sq \in DOMAIN possible_solutions.at})

\* compare_solutions whose inner loops always break: no solution of the
\* square is ever found to be unique in a row, a column or a box
compare_solutions_none(possible_solutions, square) ==
    None

compare_solutions(possible_solutions, square) ==
    LET i == square[1]
        j == square[2]
        solutions == possible_solutions.at[square]
        \* the other squares of the mapping in the same row / the same column
        sameRow == {o \in {<<i, y>> : y \in Idx} :
                        o # square /\ o \in DOMAIN possible_solutions.at}
        sameCol == {o \in {<<x, j>> : x \in Idx} :
                        o # square /\ o \in DOMAIN possible_solutions.at}
        box     == find_box(square)
        sameBox == {o \in {<<box[1][x], box[2][y]>> : x \in 1 .. 3, y \in 1 .. 3} :
                        o # square /\ o \in DOMAIN possible_solutions.at}
        \* the indices of the solutions for which the inner loop does not break
        free(others) == {k \in 1 .. Len(solutions) :
                            \A o \in others : ~In(solutions[k], possible_solutions.at[o])}
        freeRow == free(sameRow)
        freeCol == free(sameCol)
        freeBox == free(sameBox)
    IN  IF freeRow # {} THEN solutions[Least(freeRow)]
        ELSE IF freeCol # {} THEN solutions[Least(freeCol)]
        ELSE IF freeBox # {} THEN solutions[Least(freeBox)]
        ELSE None

\* the list "boxes" of check_boxes
boxes == << <<<<0, 1, 2>>, <<0, 1, 2>>>>, <<<<0, 1, 2>>, <<3, 4, 5>>>>, <<<<0, 1, 2>>, <<6, 7, 8>>>>,
            <<<<3, 4, 5>>, <<0, 1, 2>>>>, <<<<3, 4, 5>>, <<3, 4, 5>>>>, <<<<3, 4, 5>>, <<6, 7, 8>>>>,
            <<<<6, 7, 8>>, <<0, 1, 2>>>>, <<<<6, 7, 8>>, <<3, 4, 5>>>>, <<<<6, 7, 8>>, <<6, 7, 8>>>> >>

RECURSIVE Flatten(_, _)
\* the concatenation of the lists lists[from], lists[from + 1], ...
Flatten(lists, from) ==
    IF from > Len(lists) THEN <<>> ELSE lists[from] \o Flatten(lists, from + 1)

\* The appends of the loop over one box of check_boxes, in order: one entry
\* <<solution, x, y>> per "rows_dict[solution].append(x); cols_dict[solution].append(y)".
BoxAppends(possible_solutions, box) ==
    Flatten([k \in 1 .. 9 |->
                LET x == box[1][((k - 1) \div 3) + 1]
                    y == box[2][((k - 1) % 3) + 1]
                IN  IF <<x, y>> \in DOMAIN possible_solutions.at
                    THEN [n \in 1 .. Len(possible_solutions.at[<<x, y>>]) |->
                              <<possible_solutions.at[<<x, y>>][n], x, y>>]
                    ELSE <<>>], 1)

\* The keys of rows_dict (and of cols_dict) in insertion order: the solutions
\* in the order of their first append.
DictKeys(appends) ==
    LET first == [d \in SeqRange(Digits) |->
                     LET at == {k \in 1 .. Len(appends) : appends[k][1] = d}
                     IN  IF at = {} THEN 0 ELSE Least(at)]
        present == SelectSeq(Digits, LAMBDA d : first[d] # 0)
    IN  SortSeq(present, LAMBDA a, b : first[a] < first[b])

\* the results one box contributes, <<row results, column results>>
BoxResults(possible_solutions, box) ==
    LET appends == BoxAppends(possible_solutions, box)
        keys == DictKeys(appends)
        \* rows_dict (coord = 2) and cols_dict (coord = 3)
        dict(coord) == [d \in SeqRange(keys) |->
                           LET hits == SelectSeq(appends, LAMBDA a : a[1] = d)
                           IN  [k \in 1 .. Len(hits) |-> hits[k][coord]]]
        rows_dict == dict(2)
        cols_dict == dict(3)
        \* all((z == rows[0] for z in rows[1:]))
        same(list) == \A k \in 2 .. Len(list) : list[k] = list[1]
        rowKept == SelectSeq(keys, LAMBDA d : same(rows_dict[d]))
        colKept == SelectSeq(keys, LAMBDA d : same(cols_dict[d]))
    IN  << [k \in 1 .. Len(rowKept) |-> <<rowKept[k], rows_dict[rowKept[k]][1], box>>],
           [k \in 1 .. Len(colKept) |-> <<colKept[k], cols_dict[colKept[k]][1], box>>] >>

\* check_boxes returns <<row_results, col_results>>
check_boxes(possible_solutions) ==
    LET perBox == [b \in 1 .. 9 |-> BoxResults(possible_solutions, boxes[b])]
    IN  << Flatten([b \in 1 .. 9 |-> perBox[b][1]], 1),
           Flatten([b \in 1 .. 9 |-> perBox[b][2]], 1) >>

RECURSIVE RemoveInRow_whole_row(_, _, _, _, _)
\* RemoveInRow without the test "j in box[1]": the whole row is swept
RemoveInRow_whole_row(at, solution, row, box, j) ==
    IF j > 8 THEN at
    ELSE IF <<row, j>> \notin DOMAIN at
         THEN RemoveInRow_whole_row(at, solution, row, box, j + 1)
         ELSE RemoveInRow_whole_row([at EXCEPT ![<<row, j>>] = Discard(@, solution)],
                                    solution, row, box, j + 1)

RECURSIVE RemoveInRow(_, _, _, _, _)
\* "for j in range(9)" of the first loop of update_possible_solutions, from j on
RemoveInRow(at, solution, row, box, j) ==
    IF j > 8 THEN at
    ELSE IF In(j, box[2]) \/ <<row, j>> \notin DOMAIN at
         THEN RemoveInRow(at, solution, row, box, j + 1)
         ELSE RemoveInRow([at EXCEPT ![<<row, j>>] = Discard(@, solution)],
                          solution, row, box, j + 1)

RECURSIVE RemoveInCol(_, _, _, _, _)
\* "for i in range(9)" of the second loop of update_possible_solutions, from i on
RemoveInCol(at, solution, col, box, i) ==
    IF i > 8 THEN at
    ELSE IF In(i, box[1]) \/ <<i, col>> \notin DOMAIN at
         THEN RemoveInCol(at, solution, col, box, i + 1)
         ELSE RemoveInCol([at EXCEPT ![<<i, col>>] = Discard(@, solution)],
                          solution, col, box, i + 1)

RECURSIVE ApplyRowResults(_, _, _)
\* the first loop of update_possible_solutions, from result number "from" on;
\* at is the mapping of the deep copy
ApplyRowResults(at, row_results, from) ==
    \* (a mapping without keys has nothing to remove from)
    IF from > Len(row_results) \/ DOMAIN at = {} THEN at
    ELSE ApplyRowResults(
             RemoveInRow(at, row_results[from][1], row_results[from][2],
                         row_results[from][3], 0),
             row_results, from + 1)

RECURSIVE ApplyColResults(_, _, _)
\* the second loop of update_possible_solutions
ApplyColResults(at, col_results, from) ==
    \* (a mapping without keys has nothing to remove from)
    IF from > Len(col_results) \/ DOMAIN at = {} THEN at
    ELSE ApplyColResults(
             RemoveInCol(at, col_results[from][1], col_results[from][2],
                         col_results[from][3], 0),
             col_results, from + 1)

update_possible_solutions(possible_solutions, row_results, col_results) ==
    [keys |-> possible_solutions.keys,
     at   |-> ApplyColResults(ApplyRowResults(possible_solutions.at, row_results, 1),
                              col_results, 1)]

check_paradox(possible_solutions) ==
    \E sq \in DOMAIN possible_solutions.at : possible_solutions.at[sq] = <<>>


(***************************************************************************)
(* One iteration of the propagation loop.  The loop body is written twice  *)
(* in the source, in main (sudoku_solver.py 59-101) and in each branch of  *)
(* check_possible_scenarios (sudoku_functions.py 349-400); the operators   *)
(* below are its parts, used by the actions of both.                       *)
(***************************************************************************)

\* list.remove(x) for an x that is in the list
Remove(list, x) == Discard(list, x)

\* Place with the indices of the write exchanged: matrix[j][i] = solution
Place_transposed(matrix, empty_squares, square, solution) ==
    LET m  == [matrix EXCEPT ![square[2]][square[1]] = solution]
        es == Remove(empty_squares, square)
    IN  [matrix |-> m, empty_squares |-> es,
         possible_solutions |-> find_possible_solutions(m, es)]

\* "matrix[i][j] = solution; empty_squares.remove(square);
\*  possible_solutions = find_possible_solutions(matrix, empty_squares)"
Place(matrix, empty_squares, square, solution) ==
    LET m  == [matrix EXCEPT ![square[1]][square[2]] = solution]
        es == Remove(empty_squares, square)
    IN  [matrix |-> m, empty_squares |-> es,
         possible_solutions |-> find_possible_solutions(m, es)]

\* step 1: the first square of the mapping with exactly one solution
FirstSingle(possible_solutions) ==
    possible_solutions.keys[
        Least({k \in 1 .. Len(possible_solutions.keys) :
                  Len(possible_solutions.at[possible_solutions.keys[k]]) = 1})]

RECURSIVE ScanUnique(_, _)
\* step 2: "for length in range(2, 10): for square, solutions in items()":
\* the first square, by length and then by position in the mapping, for which
\* compare_solutions returns a solution; <<square, solution>>, or <<>> for none
ScanUnique(possible_solutions, length) ==
    IF length >= 10 THEN <<>>
    ELSE LET hits == {k \in 1 .. Len(possible_solutions.keys) :
                         /\ Len(possible_solutions.at[possible_solutions.keys[k]]) = length
                         /\ compare_solutions(possible_solutions,
                                              possible_solutions.keys[k]) # None}
         IN  IF hits # {}
             THEN LET square == possible_solutions.keys[Least(hits)]
                  IN  <<square, compare_solutions(possible_solutions, square)>>
             ELSE ScanUnique(possible_solutions, length + 1)

\* step 3: the mapping after check_boxes and update_possible_solutions
Confined(possible_solutions) ==
    LET results == check_boxes(possible_solutions)
    IN  update_possible_solutions(possible_solutions, results[1], results[2])

\* the comparison by identity ("is"): the deep copy is never the same object
DictEq_identity(a, b) == FALSE

\* "old_possible_solutions == possible_solutions": equality of two dicts
DictEq(a, b) == a.at = b.at

\* BranchSquare with the last square of the mapping that has the minimum
\* number of solutions instead of the first
BranchSquare_last(possible_solutions) ==
    LET min_solutions == MinLen(possible_solutions)
        last == CHOOSE k \in 1 .. Len(possible_solutions.keys) :
                    /\ Len(possible_solutions.at[possible_solutions.keys[k]]) = min_solutions
                    /\ \A l \in k + 1 .. Len(possible_solutions.keys) :
                           Len(possible_solutions.at[possible_solutions.keys[l]]) # min_solutions
    IN  possible_solutions.keys[last]

(***************************************************************************)
(* The first lines of check_possible_scenarios (326-338): the copies of    *)
(* the matrix, one per solution of the first square with the minimum       *)
(* number of solutions.                                                    *)
(***************************************************************************)
BranchSquare(possible_solutions) ==
    LET min_solutions == MinLen(possible_solutions)
    IN  possible_solutions.keys[
            Least({k \in 1 .. Len(possible_solutions.keys) :
                      Len(possible_solutions.at[possible_solutions.keys[k]]) = min_solutions})]

\* MatrixCopies without the deepcopy of 328: the copies are one object, which
\* the loop of 336-337 leaves with the last solution written
MatrixCopies_shared(matrix, possible_solutions) ==
    LET min_solutions == MinLen(possible_solutions)
        square == BranchSquare(possible_solutions)
    IN  [n \in 1 .. min_solutions |->
            [matrix EXCEPT ![square[1]][square[2]] =
                               possible_solutions.at[square][min_solutions]]]

\* MatrixCopies with a copy for the first solution only
MatrixCopies_first_only(matrix, possible_solutions) ==
    LET min_solutions == MinLen(possible_solutions)
        square == BranchSquare(possible_solutions)
    IN  [n \in 1 .. (IF min_solutions = 0 THEN 0 ELSE 1) |->
            [matrix EXCEPT ![square[1]][square[2]] = possible_solutions.at[square][n]]]

MatrixCopies(matrix, possible_solutions) ==
    LET min_solutions == MinLen(possible_solutions)
        square == BranchSquare(possible_solutions)
    IN  [n \in 1 .. min_solutions |->
            [matrix EXCEPT ![square[1]][square[2]] = possible_solutions.at[square][n]]]

\* the activation record of a call check_possible_scenarios(matrix, possible_solutions)
NewFrame(m, ps) ==
    [matrix |-> m, possible_solutions |-> ps,
     matrix_copies |-> MatrixCopies(m, ps),
     n |-> 1,                       \* the iteration of "for matrix_copy in matrix_copies"
     matrix_copy |-> NoMatrix, empty_squares_copy |-> <<>>,
     possible_solutions_copy |-> [keys |-> <<>>, at |-> <<>>],
     finished |-> TRUE,
     pc |-> "for"]


(***************************************************************************)
(* The inputs.                                                             *)
(***************************************************************************)

\* the puzzle of main's docstring (sudoku_solver.py 41-42)
Example ==
    << "4", "-", "3", "-", "2", "-", "9", "5", "-",
       "-", "-", "6", "-", "-", "-", "-", "-", "-",
       "-", "-", "-", "1", "-", "-", "-", "2", "-",
       "-", "6", "-", "-", "4", "-", "-", "-", "-",
       "-", "1", "-", "-", "-", "-", "5", "-", "-",
       "5", "-", "4", "8", "-", "-", "-", "-", "3",
       "-", "5", "-", "-", "-", "-", "-", "-", "-",
       "-", "-", "-", "-", "-", "7", "-", "-", "8",
       "9", "-", "2", "-", "1", "-", "3", "-", "-" >>

\* the completed grid of Example
Solved ==
    << "4", "8", "3", "7", "2", "6", "9", "5", "1",
       "1", "2", "6", "4", "9", "5", "8", "3", "7",
       "7", "9", "5", "1", "8", "3", "4", "2", "6",
       "3", "6", "9", "5", "4", "1", "7", "8", "2",
       "2", "1", "8", "3", "7", "9", "5", "6", "4",
       "5", "7", "4", "8", "6", "2", "1", "9", "3",
       "8", "5", "7", "2", "3", "4", "6", "1", "9",
       "6", "3", "1", "9", "5", "7", "2", "4", "8",
       "9", "4", "2", "6", "1", "8", "3", "7", "5" >>

\* a puzzle that single-candidate and single-scope placements complete
Easy ==
    << "-", "-", "-", "-", "2", "6", "-", "-", "-",
       "-", "2", "6", "4", "-", "-", "8", "3", "-",
       "7", "9", "5", "-", "8", "3", "-", "-", "-",
       "-", "6", "-", "-", "-", "1", "7", "-", "2",
       "2", "1", "-", "3", "7", "-", "-", "-", "-",
       "5", "7", "-", "8", "6", "-", "-", "9", "-",
       "-", "5", "-", "-", "3", "4", "-", "-", "9",
       "-", "3", "-", "-", "-", "7", "2", "4", "-",
       "9", "4", "2", "6", "1", "8", "3", "-", "-" >>

\* a rule-consistent grid without a completion, which no empty square shows at
\* the start: the search fails in nested calls
Hopeless ==
    << "4", "-", "-", "-", "2", "-", "-", "5", "1",
       "1", "2", "-", "4", "-", "5", "-", "3", "7",
       "-", "-", "-", "1", "-", "-", "-", "-", "-",
       "-", "6", "-", "5", "-", "1", "-", "8", "2",
       "-", "-", "-", "-", "7", "-", "5", "-", "-",
       "-", "7", "-", "-", "6", "-", "-", "-", "-",
       "8", "-", "-", "-", "-", "4", "-", "1", "-",
       "-", "-", "1", "-", "5", "7", "-", "-", "-",
       "-", "4", "-", "-", "1", "2", "-", "7", "5" >>

\* the token of square <<i, j>> in a list of 81 tokens
At(i, j) == 9 * i + j + 1

\* Solved with two empty squares whose row, column and box hold all nine
\* digits: (0,0) sees 4 in its column, (1,3) sees 1 in its column
Cornered == [Solved EXCEPT ![At(0, 0)] = "-", ![At(1, 0)] = "4", ![At(1, 3)] = "-"]

\* Solved without the four corners of a rectangle 2 6 / 6 2: two completions
Deadly == [Solved EXCEPT ![At(0, 4)] = "-", ![At(0, 5)] = "-",
                         ![At(5, 4)] = "-", ![At(5, 5)] = "-"]

Catalogue == {Example, Solved, Easy, Cornered, Deadly, Hopeless}

\* the tokens the adapter accepts: a digit or the marker of an empty square
Tokens == {"-", "1", "2", "3", "4", "5", "6", "7", "8", "9"}

\* the squares whose token is varied, and how many of them are
EditSquares == << <<0, 3>>, <<0, 1>>, <<1, 1>>, <<1, 0>>, <<0, 5>>, <<0, 8>> >>
MaxEdits == 1

\* the grids of the catalogue, each also with one token replaced
Inputs ==
    Catalogue \cup
    { [g EXCEPT ![At(EditSquares[k][1], EditSquares[k][2])] = t] :
          g \in Catalogue, k \in 1 .. MaxEdits, t \in Tokens }

(***************************************************************************)
(* The state.                                                              *)
(***************************************************************************)
VARIABLES
    raw_matrix,          \* the 81 tokens read by main
    matrix,              \* main's matrix; NoMatrix after a failed search
    empty_squares,       \* main's empty_squares
    possible_solutions,  \* main's possible_solutions
    pc,                  \* where main is: "while", "call" (inside check_possible_scenarios), "done"
    frames,              \* the activations of check_possible_scenarios, the innermost last
    step                 \* the step taken last

vars == <<raw_matrix, matrix, empty_squares, possible_solutions, pc, frames, step>>

Init ==
    /\ raw_matrix \in Inputs
    /\ matrix = Reshape(raw_matrix)
    /\ empty_squares = find_empty_squares(matrix)
    /\ possible_solutions = find_possible_solutions(matrix, empty_squares)
    /\ pc = "while"
    /\ frames = <<>>
    /\ step = "start"

(***************************************************************************)
(* main's loop (sudoku_solver.py 59-101)                                   *)
(***************************************************************************)
MainLoop == pc = "while" /\ empty_squares # <<>>

\* step 1 (63-70)
MainPlaceSingle ==
    /\ MainLoop
    /\ MinLen(possible_solutions) = 1
    /\ LET square == FirstSingle(possible_solutions)
           new == Place(matrix, empty_squares, square, possible_solutions.at[square][1])
       IN  /\ matrix' = new.matrix
           /\ empty_squares' = new.empty_squares
           /\ possible_solutions' = new.possible_solutions
    /\ step' = "single"
    /\ UNCHANGED <<raw_matrix, pc, frames>>

\* the else branch of the loop body (73-101) is entered
MainElse == MainLoop /\ MinLen(possible_solutions) # 1

\* step 2 (73-87)
MainPlaceUnique ==
    /\ MainElse
    /\ LET found == ScanUnique(possible_solutions, 2)
       IN  /\ found # <<>>
           /\ LET new == Place(matrix, empty_squares, found[1], found[2])
              IN  /\ matrix' = new.matrix
                  /\ empty_squares' = new.empty_squares
                  /\ possible_solutions' = new.possible_solutions
    /\ step' = "unique"
    /\ UNCHANGED <<raw_matrix, pc, frames>>

\* step 3 (91-94), when the mapping changes
MainConfine ==
    /\ MainElse
    /\ ScanUnique(possible_solutions, 2) = <<>>
    /\ LET new == Confined(possible_solutions)
       IN  /\ ~DictEq(possible_solutions, new)
           /\ possible_solutions' = new
    /\ step' = "confine"
    /\ UNCHANGED <<raw_matrix, matrix, empty_squares, pc, frames>>

\* step 4 (99-100): the call of check_possible_scenarios
MainSearch ==
    /\ MainElse
    /\ ScanUnique(possible_solutions, 2) = <<>>
    /\ LET new == Confined(possible_solutions)
       IN  /\ DictEq(possible_solutions, new)
           /\ possible_solutions' = new
           /\ frames' = <<NewFrame(matrix, new)>>
    /\ pc' = "call"
    /\ step' = "search"
    /\ UNCHANGED <<raw_matrix, matrix, empty_squares>>

\* the loop ends with no empty square left; 103-104 print the matrix
MainFinish ==
    /\ pc = "while"
    /\ empty_squares = <<>>
    /\ pc' = "done"
    /\ step' = "finish"
    /\ UNCHANGED <<raw_matrix, matrix, empty_squares, possible_solutions, frames>>

(***************************************************************************)
(* check_possible_scenarios (sudoku_functions.py 341-403); top is the      *)
(* innermost activation                                                    *)
(***************************************************************************)
top == frames[Len(frames)]

SetTop(f) == [frames EXCEPT ![Len(frames)] = f]

\* Return without the test "if matrix_copy is None" of 396: the caller takes a
\* failed call for a solved one and returns its copy as it stands
Return_unchecked(value) ==
    IF Len(frames) = 1
    THEN /\ matrix' = value
         /\ pc' = "done"
         /\ frames' = <<>>
         /\ UNCHANGED <<raw_matrix, empty_squares, possible_solutions>>
    ELSE LET caller == frames[Len(frames) - 1]
             resumed == [caller EXCEPT !.matrix_copy = IF value = NoMatrix THEN @ ELSE value,
                                       !.pc = "return"]
         IN  /\ frames' = SubSeq(frames, 1, Len(frames) - 2) \o <<resumed>>
             /\ UNCHANGED <<raw_matrix, matrix, empty_squares, possible_solutions, pc>>

\* The value an activation returns reaches its caller: main (100-101, then
\* 103-106) or the activation below it (391-400).
Return(value) ==
    IF Len(frames) = 1
    THEN /\ matrix' = value
         /\ pc' = "done"
         /\ frames' = <<>>
         /\ UNCHANGED <<raw_matrix, empty_squares, possible_solutions>>
    ELSE LET caller == frames[Len(frames) - 1]
             resumed ==
                 IF value = NoMatrix
                 \* 396-398: finished = False; break; then 402 fails: the next copy
                 THEN [caller EXCEPT !.matrix_copy = value, !.finished = FALSE,
                                     !.n = @ + 1, !.pc = "for"]
                 \* 399-400
                 ELSE [caller EXCEPT !.matrix_copy = value, !.pc = "return"]
         IN  /\ frames' = SubSeq(frames, 1, Len(frames) - 2) \o <<resumed>>
             /\ UNCHANGED <<raw_matrix, matrix, empty_squares, possible_solutions, pc>>

InFor == frames # <<>> /\ top.pc = "for" /\ top.n <= Len(top.matrix_copies)

\* 342-347: the next copy is taken up; "continue" when check_paradox holds,
\* otherwise the while loop is entered
BranchStart ==
    /\ InFor
    /\ LET matrix_copy == top.matrix_copies[top.n]
           empty_squares_copy == find_empty_squares(matrix_copy)
           possible_solutions_copy == find_possible_solutions(matrix_copy, empty_squares_copy)
           started == [top EXCEPT !.matrix_copy = matrix_copy,
                                  !.empty_squares_copy = empty_squares_copy,
                                  !.possible_solutions_copy = possible_solutions_copy,
                                  !.finished = TRUE]
       IN  IF check_paradox(possible_solutions_copy)
           THEN /\ frames' = SetTop([started EXCEPT !.n = @ + 1])
                /\ step' = "skip"
           ELSE /\ frames' = SetTop([started EXCEPT !.pc = "while"])
                /\ step' = "branch"
    /\ UNCHANGED <<raw_matrix, matrix, empty_squares, possible_solutions, pc>>

BranchLoop == frames # <<>> /\ top.pc = "while" /\ top.empty_squares_copy # <<>>

SetCopy(new) ==
    SetTop([top EXCEPT !.matrix_copy = new.matrix,
                       !.empty_squares_copy = new.empty_squares,
                       !.possible_solutions_copy = new.possible_solutions])

\* step 1 (353-360)
BranchPlaceSingle ==
    /\ BranchLoop
    /\ MinLen(top.possible_solutions_copy) = 1
    /\ LET square == FirstSingle(top.possible_solutions_copy)
       IN  frames' = SetCopy(Place(top.matrix_copy, top.empty_squares_copy, square,
                                   top.possible_solutions_copy.at[square][1]))
    /\ step' = "single"
    /\ UNCHANGED <<raw_matrix, matrix, empty_squares, possible_solutions, pc>>

\* the else branch of the loop body (363-400) is entered
BranchElse == BranchLoop /\ MinLen(top.possible_solutions_copy) # 1

\* step 2 (363-377)
BranchPlaceUnique ==
    /\ BranchElse
    /\ LET found == ScanUnique(top.possible_solutions_copy, 2)
       IN  /\ found # <<>>
           /\ frames' = SetCopy(Place(top.matrix_copy, top.empty_squares_copy,
                                      found[1], found[2]))
    /\ step' = "unique"
    /\ UNCHANGED <<raw_matrix, matrix, empty_squares, possible_solutions, pc>>

\* step 3 (381-386), when the mapping changes
BranchConfine ==
    /\ BranchElse
    /\ ScanUnique(top.possible_solutions_copy, 2) = <<>>
    /\ LET new == Confined(top.possible_solutions_copy)
       IN  /\ ~DictEq(top.possible_solutions_copy, new)
           /\ frames' = SetTop([top EXCEPT !.possible_solutions_copy = new])
    /\ step' = "confine"
    /\ UNCHANGED <<raw_matrix, matrix, empty_squares, possible_solutions, pc>>

\* step 4 (390-391): the recursive call
BranchSearch ==
    /\ BranchElse
    /\ ScanUnique(top.possible_solutions_copy, 2) = <<>>
    /\ LET new == Confined(top.possible_solutions_copy)
       IN  /\ DictEq(top.possible_solutions_copy, new)
           /\ frames' = SetTop([top EXCEPT !.possible_solutions_copy = new, !.pc = "call"])
                            \o <<NewFrame(top.matrix_copy, new)>>
    /\ step' = "search"
    /\ UNCHANGED <<raw_matrix, matrix, empty_squares, possible_solutions, pc>>

\* 402-403: the while loop ended with finished still True
BranchFinish ==
    /\ frames # <<>>
    /\ top.pc = "while"
    /\ top.empty_squares_copy = <<>>
    /\ top.finished
    /\ Return(top.matrix_copy)
    /\ step' = "solved"
    /\ UNCHANGED raw_matrix

\* 399-400: the recursive call returned a matrix
BranchReturn ==
    /\ frames # <<>>
    /\ top.pc = "return"
    /\ Return(top.matrix_copy)
    /\ step' = "return"
    /\ UNCHANGED raw_matrix

\* the for loop is exhausted: the function ends without a return statement
ScenariosFail ==
    /\ frames # <<>>
    /\ top.pc = "for"
    /\ top.n > Len(top.matrix_copies)
    /\ Return(NoMatrix)
    /\ step' = "fail"
    /\ UNCHANGED raw_matrix

Next ==
    \/ MainPlaceSingle
    \/ MainPlaceUnique
    \/ MainConfine
    \/ MainSearch
    \/ MainFinish
    \/ BranchStart
    \/ BranchPlaceSingle
    \/ BranchPlaceUnique
    \/ BranchConfine
    \/ BranchSearch
    \/ BranchFinish
    \/ BranchReturn
    \/ ScenariosFail

Spec == Init /\ [][Next]_vars

(***************************************************************************)
(* The rules of Sudoku, stated on their own: what the claims measure the   *)
(* solver against.                                                         *)
(***************************************************************************)
DigitSet == {"1", "2", "3", "4", "5", "6", "7", "8", "9"}

Cells == Idx \X Idx

\* the grid the solver was given
Given == Reshape(raw_matrix)

SameBox(a, b) == a[1] \div 3 = b[1] \div 3 /\ a[2] \div 3 = b[2] \div 3

\* the other cells of the row, the column and the box of a cell
Peers(sq) == {c \in Cells : c # sq /\ (c[1] = sq[1] \/ c[2] = sq[2] \/ SameBox(c, sq))}

\* no digit twice in a row, a column or a box
NoClash(g) ==
    \A sq \in Cells : g[sq[1]][sq[2]] \in DigitSet =>
        \A c \in Peers(sq) : g[c[1]][c[2]] # g[sq[1]][sq[2]]

\* the nine rows, the nine columns and the nine boxes, as sets of cells
Units ==
    {{<<i, j>> : j \in Idx} : i \in Idx} \cup
    {{<<i, j>> : i \in Idx} : j \in Idx} \cup
    {{<<3 * a + x, 3 * b + y>> : x \in 0 .. 2, y \in 0 .. 2} : a \in 0 .. 2, b \in 0 .. 2}

\* no empty cell, and every row, column and box holds each digit
ValidFull(g) == \A u \in Units : {g[c[1]][c[2]] : c \in u} = DigitSet

\* g keeps every digit of h
Extends(g, h) ==
    \A sq \in Cells : h[sq[1]][sq[2]] \in DigitSet => g[sq[1]][sq[2]] = h[sq[1]][sq[2]]

\* g is a valid completion of h
IsCompletion(g, h) == g # NoMatrix /\ ValidFull(g) /\ Extends(g, h)

\* The digits the rules allow at position k of a list t of 81 tokens: those
\* that are nowhere in the row, the column and the box of the position.
Allowed(t, k) ==
    LET i == (k - 1) \div 9
        j == (k - 1) % 9
    IN  DigitSet \ ({t[9 * i + y + 1] : y \in Idx} \cup {t[9 * x + j + 1] : x \in Idx} \cup
                    {t[9 * (3 * (i \div 3) + x) + 3 * (j \div 3) + y + 1] :
                         x \in 0 .. 2, y \in 0 .. 2})

\* an empty position with the fewest allowed digits
Fewest(t) ==
    LET empties == {k \in 1 .. 81 : t[k] \notin DigitSet}
        count == [k \in empties |-> Cardinality(Allowed(t, k))]
        least == Least({count[k] : k \in empties})
    IN  CHOOSE k \in empties : count[k] = least

RECURSIVE CompletionsOf(_)
RECURSIVE CompletionsAt(_, _)
\* The valid completions of the grid of the tokens t, by plain enumeration: an
\* empty position with the fewest allowed digits takes each of them in turn.
CompletionsOf(t) ==
    IF \A k \in 1 .. 81 : t[k] \in DigitSet
    THEN (IF ValidFull(Reshape(t)) THEN {Reshape(t)} ELSE {})
    ELSE CompletionsAt(t, Fewest(t))

CompletionsAt(t, k) == UNION {CompletionsOf([t EXCEPT ![k] = d]) : d \in Allowed(t, k)}

\* the solve has ended with a grid / with the failure result
Returned == pc = "done" /\ matrix # NoMatrix
Failed == pc = "done" /\ matrix = NoMatrix

\* the solve has ended and check_possible_scenarios was called on the way
Searched == pc = "done" /\ step # "finish"

\* some call of check_possible_scenarios is handing a grid back to its caller
Returning == \E k \in 1 .. Len(frames) : frames[k].pc = "return"

\* the grids propagation is working on: main's and each branch's
Working ==
    (IF pc = "while" THEN {matrix} ELSE {}) \cup
    {frames[k].matrix_copy : k \in {n \in 1 .. Len(frames) : frames[n].pc # "for"}}

(***************************************************************************)
(* C1: given a rule-consistent grid, a grid the solve returns has no empty *)
(* cell and holds each digit once in every row, column and box; and no     *)
(* grid propagation or a search branch is working on ever holds a digit    *)
(* twice in a row, a column or a box.                                      *)
(***************************************************************************)
C1_ValidResult ==
    NoClash(Given) =>
        /\ Returned => ValidFull(matrix)
        /\ \A g \in Working : NoClash(g)

C1_Witness ==
    /\ Returned
    /\ Searched
    /\ NoClash(Given)
    /\ ValidFull(matrix)
    /\ Len(find_empty_squares(Given)) > 40

(***************************************************************************)
(* C2: given a rule-consistent grid with exactly one valid completion, the *)
(* solve ends with that completion, also when propagation stalls and       *)
(* check_possible_scenarios is called; it does not end with the failure    *)
(* result.                                                                 *)
(***************************************************************************)
C2_UniqueSolved ==
    pc = "done" /\ NoClash(Given) /\ Cardinality(CompletionsOf(raw_matrix)) = 1 =>
        CompletionsOf(raw_matrix) = {matrix}

C2_Witness ==
    /\ Searched
    /\ NoClash(Given)
    /\ CompletionsOf(raw_matrix) = {matrix}

(***************************************************************************)
(* C3: given a rule-consistent grid without a valid completion, the solve  *)
(* ends with the failure result: no call of check_possible_scenarios hands *)
(* a grid back, and main ends with None for its matrix.  (An exception     *)
(* would show as an expression of the model without a value.)              *)
(***************************************************************************)
C3_NoCompletionFails ==
    (pc = "done" \/ Returning) /\ NoClash(Given) /\ CompletionsOf(raw_matrix) = {} =>
        Failed /\ ~Returning

\* the failure comes out of nested calls, on a grid whose empty squares all
\* have candidates at the start
C3_Witness ==
    /\ Failed
    /\ NoClash(Given)
    /\ CompletionsOf(raw_matrix) = {}
    /\ ~check_paradox(find_possible_solutions(Given, find_empty_squares(Given)))
    /\ raw_matrix = Hopeless

\* the same with an empty square that has no candidate at the start
C3_WitnessParadox ==
    /\ Failed
    /\ NoClash(Given)
    /\ CompletionsOf(raw_matrix) = {}
    /\ check_paradox(find_possible_solutions(Given, find_empty_squares(Given)))

(***************************************************************************)
(* C4: whatever the input, a cell that holds a digit in the input holds    *)
(* the same digit in every grid the solve works on and in the grid it      *)
(* returns; a step of propagation in main or in a branch, and the copies a *)
(* search call makes, only add digits to empty cells.                      *)
(***************************************************************************)
\* every grid of the state
Grids ==
    (IF pc = "done" /\ matrix = NoMatrix THEN {} ELSE {matrix}) \cup
    {frames[k].matrix : k \in 1 .. Len(frames)} \cup
    UNION {SeqRange(frames[k].matrix_copies) : k \in 1 .. Len(frames)} \cup
    {frames[k].matrix_copy : k \in {n \in 1 .. Len(frames) : frames[n].pc # "for"}}

GivensKept == \A g \in Grids : Extends(g, Given)

\* a step writes to empty cells only
WritesToEmpty ==
    /\ pc = "while" /\ pc' = "while" => Extends(matrix', matrix)
    /\ pc' = "done" /\ matrix' # NoMatrix => Extends(matrix', matrix)
    /\ \A k \in 1 .. Len(frames') :
           /\ \A n \in 1 .. Len(frames'[k].matrix_copies) :
                  Extends(frames'[k].matrix_copies[n], frames'[k].matrix)
           /\ k <= Len(frames) /\ frames[k].pc = "while" /\ frames'[k].pc # "for" =>
                  Extends(frames'[k].matrix_copy, frames[k].matrix_copy)

C4_GivensKept == []GivensKept /\ [][WritesToEmpty]_vars

C4_Witness ==
    /\ Returned
    /\ Searched
    /\ Extends(matrix, Given)
    /\ matrix # Given
    /\ Len(find_empty_squares(Given)) < 60

(***************************************************************************)
(* C5: the solve ends on every input, with a grid or with the failure      *)
(* result: no behaviour takes steps forever, and a state in which no step  *)
(* is left is one where main is done.  An iteration of the propagation     *)
(* loop, in main or in a branch, fills a square, or strictly shrinks the   *)
(* candidate mapping, or calls the search; the grid of a recursive call    *)
(* has strictly fewer empty squares than the grid of its caller; a call    *)
(* takes up its copies one after the other.  This holds also with an empty *)
(* candidate list in the mapping.                                          *)
(***************************************************************************)
\* the candidates of a mapping, as a set of <<square, digit>>
Candidates(ps) == UNION {{sq} \X SeqRange(ps.at[sq]) : sq \in DOMAIN ps.at}

\* from one iteration to the next: a square less, or the same squares and
\* strictly fewer candidates
Shrinks(es, ps, esNext, psNext) ==
    \/ Len(esNext) < Len(es)
    \/ /\ esNext = es
       /\ Candidates(psNext) \subseteq Candidates(ps)
       /\ Candidates(psNext) # Candidates(ps)

Progress ==
    /\ pc = "while" /\ pc' = "while" =>
           Shrinks(empty_squares, possible_solutions, empty_squares', possible_solutions')
    /\ pc = "while" /\ pc' # "while" => pc' = "done" \/ Len(frames') = 1
    /\ \A k \in 1 .. Len(frames) :
           k <= Len(frames') /\ frames'[k] # frames[k] =>
               \* the innermost call is the one that moves
               /\ k >= Len(frames) - 1
               /\ frames[k].pc = "while" /\ frames'[k].pc = "while" =>
                      Shrinks(frames[k].empty_squares_copy, frames[k].possible_solutions_copy,
                              frames'[k].empty_squares_copy, frames'[k].possible_solutions_copy)
               /\ frames[k].pc = "while" /\ frames'[k].pc = "call" => Len(frames') = k + 1
               \* the copies are taken up in their order, none twice
               /\ frames'[k].n >= frames[k].n
               /\ frames'[k].pc = "for" => frames'[k].n = frames[k].n + 1

\* the number of empty squares of a grid
Blanks(g) == Cardinality({sq \in Cells : g[sq[1]][sq[2]] \notin DigitSet})

DeeperIsSmaller ==
    \A k \in 2 .. Len(frames) : Blanks(frames[k].matrix) < Blanks(frames[k - 1].matrix)

\* a step is there to be taken until main is done: a loop has its next
\* iteration or its end, a call its next copy or its return
NeverStuck ==
    \/ pc = "done" /\ frames = <<>>
    \/ pc = "while" /\ frames = <<>>
    \/ /\ pc = "call"
       /\ frames # <<>>
       /\ \/ top.pc \in {"for", "return"}
          \/ top.pc = "while" /\ (top.empty_squares_copy # <<>> \/ top.finished)

\* from some point on no step is taken
ComesToRest == <>[][FALSE]_vars

C5_Terminates ==
    /\ ComesToRest
    /\ [](NeverStuck /\ DeeperIsSmaller)
    /\ [][Progress]_vars

\* the solve has ended after a nested call handed a grid back
C5_Witness ==
    /\ pc = "done"
    /\ step = "return"
    /\ Len(find_empty_squares(Given)) > 40

\* the solve has ended although a square had no candidate from the start
C5_WitnessParadox ==
    /\ pc = "done"
    /\ check_paradox(find_possible_solutions(Given, find_empty_squares(Given)))
    /\ Len(find_empty_squares(Given)) >= 40

(***************************************************************************)
(* C11: for a candidate mapping and the results check_boxes derives from   *)
(* it, update_possible_solutions returns a mapping with the same keys in   *)
(* which the candidates of a square are among its former candidates; a     *)
(* digit leaves a square only when some result carries that digit and the  *)
(* square's row (column), with the square outside the box the result comes *)
(* from; a result takes nothing from the squares of its own box; the step  *)
(* changes neither the grid nor the mapping it was given.  Checked for     *)
(* every mapping the solve works on, and on every confinement step.        *)
(***************************************************************************)
\* the mapping in work: main's, or the one of the innermost activation (every
\* mapping the solve ever holds is in work in some state)
InWork == IF frames = <<>> THEN possible_solutions ELSE top.possible_solutions_copy

\* the square lies in the box given as <<rows, columns>>
InBox(sq, box) == In(sq[1], box[1]) /\ In(sq[2], box[2])

\* some result allows the removal of digit d from square sq
Justified(sq, d, row_results, col_results) ==
    \/ \E k \in 1 .. Len(row_results) :
           /\ row_results[k][1] = d
           /\ row_results[k][2] = sq[1]
           /\ ~InBox(sq, row_results[k][3])
    \/ \E k \in 1 .. Len(col_results) :
           /\ col_results[k][1] = d
           /\ col_results[k][2] = sq[2]
           /\ ~InBox(sq, col_results[k][3])

\* new has the keys of old and, square by square, a sublist of its solutions
Narrowed(old, new) ==
    /\ new.keys = old.keys
    /\ DOMAIN new.at = DOMAIN old.at
    /\ \A sq \in DOMAIN old.at :
           new.at[sq] = SelectSeq(old.at[sq], LAMBDA d : In(d, new.at[sq]))

UpdateKeepsToResults(ps) ==
    LET results == check_boxes(ps)
        new == update_possible_solutions(ps, results[1], results[2])
    IN  /\ Narrowed(ps, new)
        /\ \A sq \in DOMAIN ps.at :
               \A d \in SeqRange(ps.at[sq]) \ SeqRange(new.at[sq]) :
                   Justified(sq, d, results[1], results[2])
        \* one result at a time: nothing leaves the squares of its own box
        /\ \A k \in 1 .. Len(results[1]) :
               LET r == results[1][k]
                   one == update_possible_solutions(ps, <<r>>, <<>>)
               IN  \A sq \in DOMAIN ps.at : InBox(sq, r[3]) => one.at[sq] = ps.at[sq]
        /\ \A k \in 1 .. Len(results[2]) :
               LET r == results[2][k]
                   one == update_possible_solutions(ps, <<>>, <<r>>)
               IN  \A sq \in DOMAIN ps.at : InBox(sq, r[3]) => one.at[sq] = ps.at[sq]

\* a confinement step of main or of the innermost activation: the grid and
\* the list of empty squares stay, the mapping is narrowed
ConfineStep ==
    step' = "confine" =>
        /\ matrix' = matrix
        /\ empty_squares' = empty_squares
        /\ Len(frames') = Len(frames)
        /\ IF frames = <<>>
           THEN Narrowed(possible_solutions, possible_solutions')
           ELSE /\ possible_solutions' = possible_solutions
                /\ \A k \in 1 .. Len(frames) :
                       /\ frames'[k].matrix = frames[k].matrix
                       /\ frames'[k].matrix_copy = frames[k].matrix_copy
                       /\ frames'[k].matrix_copies = frames[k].matrix_copies
                       /\ frames'[k].empty_squares_copy = frames[k].empty_squares_copy
                       /\ frames'[k].possible_solutions = frames[k].possible_solutions
                       /\ Narrowed(frames[k].possible_solutions_copy,
                                   frames'[k].possible_solutions_copy)

C11_UpdateOnlyByResults ==
    /\ []UpdateKeepsToResults(InWork)
    /\ [][ConfineStep]_vars

\* a confinement step has taken digits from main's mapping, and the mapping
\* it left can be narrowed once more
C11_Witness ==
    /\ step = "confine"
    /\ frames = <<>>
    /\ possible_solutions # find_possible_solutions(matrix, empty_squares)
    /\ ~DictEq(possible_solutions, Confined(possible_solutions))

(***************************************************************************)
(* C12: a call of check_possible_scenarios leaves the grid and the mapping *)
(* of its caller as they were, up to its return with a grid or with the    *)
(* failure result; each of its branches starts from the caller's grid with *)
(* exactly one more digit, in the chosen square; what an earlier branch    *)
(* placed, at any depth, shows neither in a later branch nor in the grid   *)
(* another branch returns.                                                 *)
(***************************************************************************)
\* the squares where two grids differ
Diff(g, h) == {sq \in Cells : g[sq[1]][sq[2]] # h[sq[1]][sq[2]]}

\* what each activation was called with is what its caller still holds
CallerKept ==
    /\ frames # <<>> =>
           /\ pc = "call"
           /\ frames[1].matrix = matrix
           /\ frames[1].possible_solutions = possible_solutions
    /\ \A k \in 2 .. Len(frames) :
           /\ frames[k - 1].pc = "call"
           /\ frames[k].matrix = frames[k - 1].matrix_copy
           /\ frames[k].possible_solutions = frames[k - 1].possible_solutions_copy

\* the copies of an activation: the grid it was called with and, in one
\* square that is empty there, the solutions of that square in turn
CopiesFresh(f) ==
    f.matrix_copies # <<>> =>
        \E sq \in DOMAIN f.possible_solutions.at :
            /\ f.matrix[sq[1]][sq[2]] \notin DigitSet
            /\ Len(f.matrix_copies) = Len(f.possible_solutions.at[sq])
            /\ \A n \in 1 .. Len(f.matrix_copies) :
                   /\ Diff(f.matrix_copies[n], f.matrix) = {sq}
                   /\ f.matrix_copies[n][sq[1]][sq[2]] = f.possible_solutions.at[sq][n]

\* the grid of the branch in work: its own copy and what the branch added
BranchOwn(f) ==
    f.pc # "for" /\ f.matrix_copy # NoMatrix =>
        /\ Extends(f.matrix_copy, f.matrix_copies[f.n])
        /\ f.pc # "return" => SeqRange(f.empty_squares_copy) =
                                  SeqRange(find_empty_squares(f.matrix_copy))

BranchesFresh ==
    /\ \A k \in 1 .. Len(frames) : CopiesFresh(frames[k]) /\ BranchOwn(frames[k])
    \* a branch that has just been taken up holds its copy and nothing else
    /\ step = "branch" => top.matrix_copy = top.matrix_copies[top.n]

CallSteps ==
    \* main waits with its grid and mapping as they are
    /\ pc = "call" /\ pc' = "call" =>
           /\ matrix' = matrix
           /\ empty_squares' = empty_squares
           /\ possible_solutions' = possible_solutions
    \* an activation that is the innermost neither before nor after the step
    \* has not moved
    /\ \A k \in 1 .. Len(frames) - 1 : k < Len(frames') => frames'[k] = frames[k]
    \* what an activation was called with and its copies stay for its life
    /\ \A k \in 1 .. Len(frames) : k <= Len(frames') =>
           /\ frames'[k].matrix = frames[k].matrix
           /\ frames'[k].possible_solutions = frames[k].possible_solutions
           /\ frames'[k].matrix_copies = frames[k].matrix_copies
    \* an iteration of a branch's loop adds at most one digit to its grid
    /\ /\ Len(frames') = Len(frames)
       /\ frames # <<>>
       /\ top.pc = "while"
       /\ frames'[Len(frames)].pc = "while"
       => Cardinality(Diff(frames'[Len(frames)].matrix_copy, top.matrix_copy)) <= 1
    \* a grid handed back is the grid of the branch that returns it
    /\ Len(frames') < Len(frames) /\ step' # "fail" =>
           IF frames' = <<>> THEN matrix' = top.matrix_copy
           ELSE frames'[Len(frames')].matrix_copy = top.matrix_copy

C12_CallerAndSiblingsUntouched ==
    /\ [](CallerKept /\ BranchesFresh)
    /\ [][CallSteps]_vars

\* a nested call has taken up a later copy after an earlier branch, which had
\* placed digits of its own, has failed
C12_Witness ==
    /\ Len(frames) >= 2
    /\ step = "branch"
    /\ top.n >= 2
    /\ top.matrix_copy = top.matrix_copies[top.n]
    /\ Diff(top.matrix_copy, top.matrix) = {BranchSquare(top.possible_solutions)}

(***************************************************************************)
(* C6.  As claimed: in the propagation loop of main and of every branch,   *)
(* once a still empty square has no solution left, propagation stops at    *)
(* once and reports failure; no placement, confinement or search step      *)
(* follows on that grid (C6_AbortsAtOnce, which does not hold).            *)
(* As it holds: the loops have no such test.  With an empty list in the    *)
(* mapping step 1 is never taken; step 2 may still place digits in other   *)
(* squares and step 3 may still prune; the square of the empty list stays  *)
(* unfilled, and the list stays empty when the grid leaves it no solution, *)
(* while a list that step 3 emptied is computed anew at the next           *)
(* placement; a call of check_possible_scenarios with an empty list in the *)
(* mapping makes no copy and returns the failure result, so that main      *)
(* reports failure or the branch gives way to the next copy                *)
(* (C6_ParadoxEndsInFailure).                                              *)
(***************************************************************************)
\* main's loop is at work on a mapping with an empty list
ParadoxInMain == pc = "while" /\ empty_squares # <<>> /\ check_paradox(possible_solutions)

\* the loop of the innermost branch is at work on a mapping with an empty list
ParadoxInBranch ==
    /\ frames # <<>>
    /\ top.pc = "while"
    /\ top.empty_squares_copy # <<>>
    /\ check_paradox(top.possible_solutions_copy)

\* the squares of a mapping that have no solution left
Dead(ps) == {sq \in DOMAIN ps.at : ps.at[sq] = <<>>}

C6_AbortsAtOnce ==
    [][ParadoxInMain \/ ParadoxInBranch =>
           step' \notin {"single", "unique", "confine", "search"}]_vars

\* the squares of a mapping for which the grid itself leaves no solution
DeadInGrid(ps, g) == {sq \in DOMAIN ps.at : SolutionsOf(g, sq) = <<>>}

\* the steps from a state with an empty list in the mapping in work: after a
\* placement the mapping is computed anew, which keeps the lists the grid
\* leaves empty and forgets what step 3 had pruned; step 3 only prunes
ParadoxSteps ==
    /\ ParadoxInMain =>
           /\ step' \in {"unique", "confine", "search"}
           /\ step' \in {"unique", "confine"} =>
                  /\ pc' = "while"
                  /\ \A sq \in Dead(possible_solutions) : In(sq, empty_squares')
                  /\ DeadInGrid(possible_solutions, matrix) \subseteq Dead(possible_solutions')
           /\ step' = "confine" => Dead(possible_solutions) \subseteq Dead(possible_solutions')
           /\ step' = "search" =>
                  /\ Len(frames') = 1
                  /\ frames'[1].matrix_copies = <<>>
    /\ ParadoxInBranch =>
           /\ step' \in {"unique", "confine", "search"}
           /\ step' \in {"unique", "confine"} =>
                  /\ Len(frames') = Len(frames)
                  /\ frames'[Len(frames)].pc = "while"
                  /\ \A sq \in Dead(top.possible_solutions_copy) :
                         In(sq, frames'[Len(frames)].empty_squares_copy)
                  /\ DeadInGrid(top.possible_solutions_copy, top.matrix_copy)
                         \subseteq Dead(frames'[Len(frames)].possible_solutions_copy)
           /\ step' = "confine" =>
                  Dead(top.possible_solutions_copy)
                      \subseteq Dead(frames'[Len(frames)].possible_solutions_copy)
           /\ step' = "search" =>
                  /\ Len(frames') = Len(frames) + 1
                  /\ frames'[Len(frames')].matrix_copies = <<>>
    \* a call that made no copy returns the failure result
    /\ frames # <<>> /\ top.matrix_copies = <<>> =>
           /\ step' = "fail"
           /\ Len(frames') = Len(frames) - 1
           /\ IF Len(frames) = 1
              THEN pc' = "done" /\ matrix' = NoMatrix
              ELSE /\ frames'[Len(frames')].pc = "for"
                   /\ frames'[Len(frames')].n = frames[Len(frames) - 1].n + 1
                   /\ frames'[Len(frames')].matrix_copy = NoMatrix

\* a call makes no copy exactly when its mapping has an empty list
NoCopyIffParadox ==
    \A k \in 1 .. Len(frames) :
        frames[k].matrix_copies = <<>> <=> check_paradox(frames[k].possible_solutions)

C6_ParadoxEndsInFailure == []NoCopyIffParadox /\ [][ParadoxSteps]_vars

\* main has reported failure for a grid on which it went on placing or
\* pruning with an empty list in its mapping
C6_Witness ==
    /\ Failed
    /\ step = "fail"
    /\ check_paradox(possible_solutions)
    /\ NoClash(Given)
    /\ check_paradox(find_possible_solutions(Given, find_empty_squares(Given)))
    /\ possible_solutions # find_possible_solutions(Given, find_empty_squares(Given))

\* the same in a branch: it has given way to the next copy with an empty
\* list in its mapping, after steps of its own
C6_WitnessBranch ==
    /\ frames # <<>>
    /\ top.pc = "for"
    /\ step = "fail"
    /\ check_paradox(top.possible_solutions_copy)
    /\ Len(top.empty_squares_copy) < Len(find_empty_squares(top.matrix)) - 1

\* step 3 has emptied a list that the grid would leave a solution
C6_WitnessPruned ==
    /\ step = "confine"
    /\ Dead(InWork) # {}
    /\ DeadInGrid(InWork, IF frames = <<>> THEN matrix ELSE top.matrix_copy) = {}

(***************************************************************************)
(* C7.  As claimed: for an input that holds a digit twice in a row, a      *)
(* column or a box, a completely filled one included, the solve ends with  *)
(* the failure result and never returns the grid or a completion of it     *)
(* (C7_ContradictoryFails, which does not hold).                           *)
(* As it holds: the givens are not checked.  A completely filled input is  *)
(* returned as it is; otherwise the solve ends with the failure result or  *)
(* with a completely filled grid that keeps every given, and so holds the  *)
(* repeated digit still; it ends with the failure result whenever some     *)
(* empty square has no solution in the first mapping                       *)
(* (C7_ContradictoryOutcome).                                              *)
(***************************************************************************)
Contradictory == ~NoClash(Given)

\* no empty square
Full(g) == \A sq \in Cells : g[sq[1]][sq[2]] \in DigitSet

\* the first mapping, as main computes it at 55-56
FirstMapping == find_possible_solutions(Given, find_empty_squares(Given))

C7_ContradictoryFails == pc = "done" /\ Contradictory => matrix = NoMatrix

C7_ContradictoryOutcome ==
    pc = "done" /\ Contradictory =>
        /\ matrix # NoMatrix => Full(matrix) /\ Extends(matrix, Given) /\ ~ValidFull(matrix)
        /\ Full(Given) => matrix = Given /\ step = "finish"
        /\ check_paradox(FirstMapping) => matrix = NoMatrix

\* a grid with a repeated given and with empty squares has been filled up
\* and returned
C7_Witness ==
    /\ Returned
    /\ Contradictory
    /\ ~Full(Given)
    /\ Full(matrix)
    /\ ~NoClash(matrix)

\* a grid with a repeated given has ended in the failure result, with an
\* empty list in the first mapping / without one
C7_WitnessParadox == Failed /\ Contradictory /\ check_paradox(FirstMapping)
C7_WitnessFailed == Failed /\ Contradictory /\ ~check_paradox(FirstMapping)

(***************************************************************************)
(* C8: a rule-consistent puzzle that some sequence of single-candidate     *)
(* placements and single-scope placements (a digit that no other empty     *)
(* square of the row, of the column or of the box allows) completes is     *)
(* completed by main's loop alone, with its valid completion, through      *)
(* steps 1 and 2 only: check_possible_scenarios is not called.             *)
(***************************************************************************)
\* the positions, in a list of 81 tokens, of the rows, columns and boxes
\* that hold position k
UnitsAt(k) ==
    LET i == (k - 1) \div 9
        j == (k - 1) % 9
    IN  { {9 * i + y + 1 : y \in Idx},
          {9 * x + j + 1 : x \in Idx},
          {9 * (3 * (i \div 3) + x) + 3 * (j \div 3) + y + 1 : x \in 0 .. 2, y \in 0 .. 2} }

\* the placements <<position, digit>> the rules force on the tokens t: the only
\* digit allowed at an empty position, or a digit allowed at no other empty
\* position of a row, column or box
Forced(t) ==
    LET allowed == [k \in 1 .. 81 |-> IF t[k] \in DigitSet THEN {} ELSE Allowed(t, k)]
    IN  {m \in UNION {{k} \X allowed[k] : k \in 1 .. 81} :
            \/ allowed[m[1]] = {m[2]}
            \/ \E u \in UnitsAt(m[1]) : \A o \in u \ {m[1]} : m[2] \notin allowed[o]}

RECURSIVE SinglesClose(_)
\* forced placements, one at a time in whatever order, until none is left
SinglesClose(t) ==
    IF Forced(t) = {} THEN t
    ELSE LET m == CHOOSE m \in Forced(t) : \A o \in Forced(t) : m[1] >= o[1]
         IN  SinglesClose([t EXCEPT ![m[1]] = m[2]])

SinglesSolvable(t) == ValidFull(Reshape(SinglesClose(t)))

C8_SinglesNeedNoSearch ==
    /\ pc = "done" /\ NoClash(Given) /\ SinglesSolvable(raw_matrix) =>
           /\ step = "finish"
           /\ frames = <<>>
           /\ IsCompletion(matrix, Given)
           /\ matrix = Reshape(SinglesClose(raw_matrix))
    \* step 3 is not reached either: steps 1 and 2 find a placement each time
    /\ pc = "while" /\ step = "confine" /\ NoClash(Given) => ~SinglesSolvable(raw_matrix)

\* main has completed, without a call of the search, a puzzle with more than
\* forty empty squares that forced placements complete
C8_Witness ==
    /\ pc = "done"
    /\ step = "finish"
    /\ Len(find_empty_squares(Given)) > 40
    /\ NoClash(Given)
    /\ SinglesSolvable(raw_matrix)
    /\ IsCompletion(matrix, Given)

(***************************************************************************)
(* C9: find_possible_solutions returns a mapping whose keys are exactly    *)
(* the empty squares it was given and whose list for a square holds        *)
(* exactly the digits that stand nowhere in the square's row, column and   *)
(* box of the grid, whatever the mapping was before; so after a placement  *)
(* and the recomputation no empty square in the row, the column or the box *)
(* of the placement has the placed digit among its solutions.              *)
(***************************************************************************)
\* the grid the innermost running loop works on
GridInWork == IF frames = <<>> THEN matrix ELSE top.matrix_copy

\* the digits that stand in no cell of the row, the column and the box of sq
Free(g, sq) == DigitSet \ ({g[sq[1]][sq[2]]} \cup {g[c[1]][c[2]] : c \in Peers(sq)})

\* ps is what the rules alone give for the grid g: one key for each empty cell
\* of g, in row-major order, and for each the free digits, ascending, once each
ExactFor(ps, g) ==
    /\ Len(ps.keys) = Cardinality(SeqRange(ps.keys))
    /\ SeqRange(ps.keys) = {sq \in Cells : ~isdigit(g[sq[1]][sq[2]])}
    /\ DOMAIN ps.at = SeqRange(ps.keys)
    /\ \A sq \in DOMAIN ps.at :
           /\ SeqRange(ps.at[sq]) = Free(g, sq)
           /\ Len(ps.at[sq]) = Cardinality(Free(g, sq))

\* the mapping in work was last written by find_possible_solutions
Recomputed == step \in {"start", "single", "unique", "branch", "skip"}

\* the function on every grid the solve works on, and the mapping of the
\* program wherever it has just been recomputed
FindIsExact ==
    /\ GridInWork # NoMatrix =>
           ExactFor(find_possible_solutions(GridInWork, find_empty_squares(GridInWork)),
                    GridInWork)
    /\ Recomputed => ExactFor(InWork, GridInWork)

\* a placement: the digit written is gone from the solutions of every empty
\* square of its row, column and box, and the mapping owes nothing to the one
\* before it
PlacedDigitGone ==
    step' \in {"single", "unique"} =>
        LET g == GridInWork
            h == GridInWork'
            ps == InWork'
        IN  /\ Cardinality(Diff(g, h)) = 1
            /\ \A sq \in Diff(g, h) :
                   /\ sq \notin DOMAIN ps.at
                   /\ \A o \in Peers(sq) \cap DOMAIN ps.at : ~In(h[sq[1]][sq[2]], ps.at[o])
            /\ ps = find_possible_solutions(h, find_empty_squares(h))

C9_CandidatesExact == []FindIsExact /\ [][PlacedDigitGone]_vars

\* inside a call of the search a placement has just been made and the mapping
\* recomputed: a digit that was not given stands in the grid, and an empty
\* square of its row, column or box still has two solutions or more, the
\* digit not among them
C9_Witness ==
    /\ frames # <<>>
    /\ step \in {"single", "unique"}
    /\ \E sq \in Diff(Given, GridInWork) :
           \E o \in Peers(sq) \cap DOMAIN InWork.at :
               /\ Len(InWork.at[o]) >= 2
               /\ ~In(GridInWork[sq[1]][sq[2]], InWork.at[o])

(***************************************************************************)
(* C10: a call of check_possible_scenarios branches on one square, the     *)
(* first in row-major order among those with the fewest solutions, with    *)
(* one copy of the matrix for each solution of the square; it takes the    *)
(* copies up in ascending order of the digit, returns the grid of the      *)
(* first that is solved without taking up a later one, and fails only      *)
(* when every copy has failed.                                             *)
(***************************************************************************)
\* the number a digit stands for
Val(d) == CHOOSE k \in 1 .. 9 : Digits[k] = d

RowMajor(sq) == 9 * sq[1] + sq[2]

\* the fewest solutions a square of the mapping has
Fewness(ps) ==
    CHOOSE k \in 0 .. 9 : /\ \E sq \in DOMAIN ps.at : Len(ps.at[sq]) = k
                          /\ \A sq \in DOMAIN ps.at : Len(ps.at[sq]) >= k

\* the first square, rows before columns, with the fewest solutions
BranchCell(ps) ==
    CHOOSE sq \in DOMAIN ps.at :
        /\ Len(ps.at[sq]) = Fewness(ps)
        /\ \A o \in DOMAIN ps.at :
               Len(ps.at[o]) = Fewness(ps) => RowMajor(sq) <= RowMajor(o)

\* the copies of the activation f: the n-th is the matrix of the call with the
\* n-th solution of the branch square written, the solutions ascending; the
\* copy in work is the one the iteration counts
BranchesInOrder(f) ==
    LET ps == f.possible_solutions
        cell == BranchCell(ps)
        digits == ps.at[cell]
    IN  /\ Len(f.matrix_copies) = Len(digits)
        /\ \A n \in 1 .. Len(digits) :
               /\ Diff(f.matrix, f.matrix_copies[n]) = {cell}
               /\ f.matrix_copies[n][cell[1]][cell[2]] = digits[n]
        /\ \A a, b \in 1 .. Len(digits) : a < b => Val(digits[a]) < Val(digits[b])
        /\ f.n \in 1 .. Len(digits) + 1
        /\ f.pc \in {"while", "call", "return"} =>
               /\ f.n <= Len(digits)
               /\ Extends(f.matrix_copy, f.matrix_copies[f.n])

SearchInOrder == \A k \in 1 .. Len(frames) : BranchesInOrder(frames[k])

\* what the innermost activation hands to its caller in a step that ends it
Handed == IF Len(frames) = 1 THEN matrix' ELSE frames'[Len(frames')].matrix_copy

\* A step of the search: the copies of an activation stay as they were made;
\* its iteration moves on by one copy, and only when the copy in work has
\* failed (an empty list at its start, or its own search has failed); a grid
\* is returned from the copy in work, complete, with the later copies not
\* taken up; failure is returned only with every copy used up.
SearchSteps ==
    /\ \A k \in 1 .. Len(frames) : k <= Len(frames') =>
           /\ frames'[k].matrix_copies = frames[k].matrix_copies
           /\ frames'[k].possible_solutions = frames[k].possible_solutions
           /\ frames'[k].n \in {frames[k].n, frames[k].n + 1}
           /\ frames'[k].n # frames[k].n =>
                  /\ k = Len(frames')
                  /\ \/ /\ step' = "skip"
                        /\ Len(frames') = Len(frames)
                        /\ frames[k].pc = "for"
                        /\ check_paradox(frames'[k].possible_solutions_copy)
                     \/ /\ step' = "fail"
                        /\ Len(frames') = Len(frames) - 1
                        /\ frames[k].pc = "call"
    /\ Len(frames') < Len(frames) =>
           /\ Len(frames') = Len(frames) - 1
           /\ IF step' = "fail"
              THEN /\ top.n = Len(top.matrix_copies) + 1
                   /\ Len(frames) = 1 => matrix' = NoMatrix
              ELSE /\ step' \in {"solved", "return"}
                   /\ top.n <= Len(top.matrix_copies)
                   /\ Handed # NoMatrix
                   /\ Full(Handed)
                   /\ Extends(Handed, top.matrix_copies[top.n])
    \* a copy is taken up only by the activation's own iteration, in its turn
    /\ step' = "branch" =>
           /\ frames'[Len(frames')].n = top.n
           /\ frames'[Len(frames')].matrix_copy = top.matrix_copies[top.n]

C10_BranchOrder == []SearchInOrder /\ [][SearchSteps]_vars

\* an activation is about to return the grid that its second copy was solved
\* to by a search of its own, its first copy having failed
C10_Witness ==
    \E k \in 1 .. Len(frames) :
        /\ frames[k].pc = "return"
        /\ frames[k].n >= 2
        /\ Full(frames[k].matrix_copy)

\* the first copy of an activation is solved with a later copy not taken up
C10_WitnessFirst ==
    /\ frames # <<>>
    /\ top.pc = "while"
    /\ top.empty_squares_copy = <<>>
    /\ top.n = 1
    /\ Len(top.matrix_copies) > 1

=============================================================================
